---- MODULE Spec2Model ----
(***************************************************************************)
(* A state-machine model of nipy/neurospin/clustering/gmm.py: the GMM      *)
(* class (construction, plugin, check, check_x, initialize, the E and M    *)
(* steps, estimate, initialize_and_estimate, the evaluators) and the       *)
(* module function best_fitting_GMM.                                       *)
(*                                                                         *)
(* Numbers.  A float r is held as the integer r*ONE rounded down (fixed    *)
(* point).  The three non-finite floats the code can produce (-inf, +inf,  *)
(* nan) are explicit values of the extended reals used for scores.         *)
(* Arrays.  A numpy array is a record [shape, a]: its shape tuple and its  *)
(* nested sequence of entries, so that the shape tests of check and        *)
(* check_x read the same thing the code reads.                             *)
(***************************************************************************)
EXTENDS Integers, Sequences, FiniteSets, TLC

\* ------------------------------------------------------------------------
\* Bounds of the model
\* ------------------------------------------------------------------------
MaxK == 2
MaxIter == 2
MaxInit == 2
MaxCalls == 2

\* ------------------------------------------------------------------------
\* Fixed-point arithmetic
\* ------------------------------------------------------------------------
\* the fixed-point unit: the float 1.0
ONE == 10 * 10 * 10

\* a small constant to avoid numerical singularities (1.e-15 in the code):
\* the smallest positive number of the representation
tiny == 1

\* prior_shrinkage, "small = 0.01"
small == ONE \div 100

\* np.log(2*np.pi) = 1.8379
LOG2PI == (1838 * ONE) \div 1000

\* log2(e) and ln(2), to go between base 2 and base e
LOG2E == (1443 * ONE) \div 1000
LN2 == (693 * ONE) \div 1000

Mul(a, b) == (a * b) \div ONE
Div(a, b) == (a * ONE) \div b
Max(a, b) == IF a >= b THEN a ELSE b
Abs(a) == IF a >= 0 THEN a ELSE -a

\* curvature of log2 and of 2^w between two powers of two
CURVE == (345 * ONE) \div 1000

\* log2 of a positive number: exact at the powers of two, a parabola between
RECURSIVE Log2(_)
Log2(v) ==
  IF v >= 2 * ONE THEN ONE + Log2(v \div 2)
  ELSE IF v < ONE THEN Log2(2 * v) - ONE
  ELSE (v - ONE) + Mul(Mul(v - ONE, 2 * ONE - v), CURVE)

\* 2^w: exact at the integers, a parabola between; 0 below the resolution
RECURSIVE Exp2(_)
Exp2(w) ==
  IF w < -(12 * ONE) THEN 0
  ELSE IF w < 0 THEN Exp2(w + ONE) \div 2
  ELSE IF w >= ONE THEN 2 * Exp2(w - ONE)
  ELSE ONE + w - Mul(Mul(w, ONE - w), CURVE)

\* np.log of a positive number
Log(v) == Mul(Log2(v), LN2)

\* np.exp
Exp(w) == Exp2(Mul(w, LOG2E))

\* ------------------------------------------------------------------------
\* Extended reals: the scores all, allOld, bic, bestbic
\* ------------------------------------------------------------------------
Num(v) == [t |-> "num", v |-> v]
NegInf == [t |-> "-inf", v |-> 0]
PosInf == [t |-> "+inf", v |-> 0]
NaN == [t |-> "nan", v |-> 0]

\* a < b on floats: false as soon as one side is nan
Less(a, b) ==
  /\ a.t # "nan"
  /\ b.t # "nan"
  /\ \/ a.t = "-inf" /\ b.t # "-inf"
     \/ b.t = "+inf" /\ a.t # "+inf"
     \/ a.t = "num" /\ b.t = "num" /\ a.v < b.v

\* a + d for a finite d
Plus(a, d) == IF a.t = "num" THEN Num(a.v + d) ELSE a

\* a <= b on floats: false as soon as one side is nan
AtMost(a, b) == a.t # "nan" /\ b.t # "nan" /\ (a = b \/ Less(a, b))

\* ------------------------------------------------------------------------
\* Sequences, vectors, matrices
\* ------------------------------------------------------------------------
RECURSIVE SumSeq(_)
SumSeq(s) == IF s = <<>> THEN 0 ELSE Head(s) + SumSeq(Tail(s))

RECURSIVE ProdSeq(_)
ProdSeq(s) == IF s = <<>> THEN 1 ELSE Head(s) * ProdSeq(Tail(s))

\* the sequence s without its j-th entry
Drop(s, j) == [i \in 1..(Len(s) - 1) |-> IF i < j THEN s[i] ELSE s[i + 1]]

\* the matrix m without its first row and its j-th column
Minor(m, j) == [i \in 1..(Len(m) - 1) |-> Drop(m[i + 1], j)]

\* the matrix m without its r-th row and its c-th column
Minor2(m, r, c) == [i \in 1..(Len(m) - 1) |-> Drop(Drop(m, r)[i], c)]

Sign(j) == IF j % 2 = 1 THEN 1 ELSE -1

\* determinant by expansion along the first row
RECURSIVE Det(_)
Det(m) ==
  IF Len(m) = 1 THEN m[1][1]
  ELSE SumSeq([j \in 1..Len(m) |-> Sign(j) * Mul(m[1][j], Det(Minor(m, j)))])

Cofactor(m, r, c) ==
  IF Len(m) = 1 THEN ONE ELSE Sign(r + c + 1) * Det(Minor2(m, r, c))

\* numpy.linalg.pinv of a square matrix: the inverse (adjugate over
\* determinant) of a non-singular matrix, the zero matrix of a zero matrix
Pinv(m) ==
  LET d == Det(m)
  IN [i \in 1..Len(m) |-> [j \in 1..Len(m) |->
        IF d = 0 THEN 0 ELSE Div(Cofactor(m, j, i), d)]]

\* np.log(eigvalsh(b)).sum(): the log of the product of the eigenvalues,
\* which is the determinant of b
LogEig(b) == Log(Det(b))

\* ------------------------------------------------------------------------
\* numpy arrays
\* ------------------------------------------------------------------------
Arr(shape, a) == [shape |-> shape, a |-> a]

\* the value None of an optional array argument
None == Arr(<<-1>>, <<>>)

IsNone(arr) == arr.shape = <<-1>>

\* np.size
Size(arr) == ProdSeq(arr.shape)

\* np.zeros((k, dim))
Zeros2(k, dim) == Arr(<<k, dim>>, [i \in 1..k |-> [j \in 1..dim |-> 0]])

\* np.ones((k, dim))
Ones2(k, dim) == Arr(<<k, dim>>, [i \in 1..k |-> [j \in 1..dim |-> ONE]])

\* np.eye(dim)
Eye(dim) == [i \in 1..dim |-> [j \in 1..dim |-> IF i = j THEN ONE ELSE 0]]

\* np.repeat(np.reshape(np.eye(dim), (1, dim, dim)), k, 0)
EyeStack(k, dim) == Arr(<<k, dim, dim>>, [c \in 1..k |-> Eye(dim)])

\* np.ones(k)*1.0/k
Uniform(k) == Arr(<<k>>, [c \in 1..k |-> Div(ONE, k * ONE)])

\* ------------------------------------------------------------------------
\* The GMM object
\* ------------------------------------------------------------------------
PrecTypes == {"full", "diag", "tied"}

\* a variant of the default precisions: ones of shape (k, dim) for every
\* kind
DefaultPrecisionsAllDiag(k, dim, prec_type) == Ones2(k, dim)

\* GMM.__init__, the precisions when none are given: k identity matrices
\* for the kind 'full', ones of shape (k, dim) otherwise
DefaultPrecisions(k, dim, prec_type) ==
  IF prec_type = "full" THEN EyeStack(k, dim) ELSE Ones2(k, dim)

\* GMM.__init__: the fields are stored as given, None is replaced by the
\* default of the right shape; the prior_* attributes do not exist yet
GMM(k, dim, prec_type, means, precisions, weights) ==
  [k |-> k,
   dim |-> dim,
   prec_type |-> prec_type,
   means |-> IF IsNone(means) THEN Zeros2(k, dim) ELSE means,
   precisions |-> IF IsNone(precisions)
                  THEN DefaultPrecisions(k, dim, prec_type)
                  ELSE precisions,
   weights |-> IF IsNone(weights) THEN Uniform(k) ELSE weights,
   prior_set |-> FALSE,
   prior_means |-> <<>>,
   prior_weights |-> <<>>,
   prior_scale |-> <<>>,
   prior_dof |-> 0,
   prior_shrinkage |-> 0]

\* GMM.check: "ok", or the error that the first failing test raises.
\* Means are arrays of rank 2 and weights of rank 1 throughout the model;
\* precisions have rank 2 or 3, and shape[2] of a rank 2 array does not exist.
check(self) ==
  IF self.means.shape[1] # self.k THEN "ValueError"
  ELSE IF self.means.shape[2] # self.dim THEN "ValueError"
  ELSE IF Size(self.weights) # self.k THEN "ValueError"
  ELSE IF self.dim # self.precisions.shape[2] THEN "ValueError"
  ELSE IF self.prec_type = "full" /\ Len(self.precisions.shape) < 3
       THEN "IndexError"
  ELSE IF self.prec_type = "full" /\ self.dim # self.precisions.shape[3]
       THEN "ValueError"
  ELSE IF self.prec_type = "diag"
          /\ self.precisions.shape # self.means.shape THEN "ValueError"
  ELSE IF self.precisions.shape[1] # self.k THEN "ValueError"
  ELSE IF self.prec_type \notin {"full", "diag"} THEN "ValueError"
  ELSE "ok"

\* GMM.plugin: the three fields are assigned first, check() runs last
plugin(self, means, precisions, weights) ==
  LET g == [self EXCEPT !.means = means,
                        !.precisions = precisions,
                        !.weights = weights]
  IN [self |-> g, err |-> check(g)]

\* if np.size(x) == x.shape[0]: x = np.reshape(x, (np.size(x), 1))
Reshape(x) ==
  IF Size(x) = x.shape[1]
  THEN Arr(<<Size(x), 1>>,
           IF Len(x.shape) = 1
           THEN [i \in 1..Len(x.a) |-> <<x.a[i]>>]
           ELSE x.a)
  ELSE x

\* a variant of check_x: the caller's array itself takes the new shape
check_x_in_place(self, x) ==
  LET r == Reshape(x)
  IN [x |-> r, arg |-> r,
      err |-> IF r.shape[2] # self.dim THEN "ValueError" ELSE "ok"]

\* GMM.check_x: an array whose size equals its first dimension is reshaped
\* to (size, 1); then shape[1] is compared with dim.  np.reshape returns a
\* new array object bound to the local name: arg, the caller's array after
\* the call, is the array that was passed
check_x(self, x) ==
  LET r == Reshape(x)
  IN [x |-> r, arg |-> x,
      err |-> IF r.shape[2] # self.dim THEN "ValueError" ELSE "ok"]

\* ------------------------------------------------------------------------
\* Likelihood evaluation.  x is the n-by-dim list of rows of the dataset.
\* ------------------------------------------------------------------------
\* row sums, np.sum(l, 1)
RowSums(l) == [i \in 1..Len(l) |-> SumSeq(l[i])]

\* GMM.unweighted_likelihood: the n-by-k matrix of component densities
unweighted_likelihood(self, x) ==
  LET w0 == -(LOG2PI * self.dim)
      m == self.means.a
      b == self.precisions.a
      d == [i \in 1..Len(x) |-> [c \in 1..self.k |->
              [j \in 1..self.dim |-> m[c][j] - x[i][j]]]]
      w == [c \in 1..self.k |->
              IF self.prec_type = "full"
              THEN w0 + LogEig(b[c])
              ELSE w0 + SumSeq([j \in 1..self.dim |-> Log(b[c][j])])]
      q(i, c) ==
        IF self.prec_type = "full"
        THEN SumSeq([j \in 1..self.dim |->
               Mul(SumSeq([r \in 1..self.dim |-> Mul(d[i][c][r], b[c][r][j])]),
                   d[i][c][j])])
        ELSE SumSeq([j \in 1..self.dim |->
               Mul(Mul(d[i][c][j], d[i][c][j]), b[c][j])])
  IN [i \in 1..Len(x) |-> [c \in 1..self.k |-> Exp((w[c] - q(i, c)) \div 2)]]

\* GMM.likelihood: the densities weighted by the component weights
likelihood(self, x) ==
  LET like == unweighted_likelihood(self, x)
  IN [i \in 1..Len(x) |-> [c \in 1..self.k |->
        Mul(like[i][c], self.weights.a[c])]]

\* GMM._Estep
Estep(self, x) == likelihood(self, x)

\* np.mean(np.log(np.maximum(sl, tiny))): nan for an empty dataset
MeanLog(sl) ==
  IF Len(sl) = 0 THEN NaN
  ELSE Num(SumSeq([i \in 1..Len(sl) |-> Log(Max(sl[i], tiny))]) \div Len(sl))

\* number of free parameters (integer arithmetic, as the code computes it)
Eta(self) ==
  IF self.prec_type = "full"
  THEN self.k * (1 + self.dim + (self.dim * self.dim + 1) \div 2) - 1
  ELSE self.k * (1 + 2 * self.dim) - 1

\* GMM.bic: log(0) = -inf when like has no row, and the result is +inf
bic(self, like) ==
  LET sl == [i \in 1..Len(like) |-> Max(SumSeq(like[i]), tiny)]
      bicc == SumSeq([i \in 1..Len(like) |-> Log(sl[i])])
  IN IF Len(like) = 0 THEN PosInf
     ELSE Num(bicc - Log(Len(like) * ONE) * Eta(self))

\* ------------------------------------------------------------------------
\* The M step and the regularizing prior
\* ------------------------------------------------------------------------
\* rows of l divided by their sum (floored by tiny)
Normalized(l) ==
  [i \in 1..Len(l) |-> [c \in 1..Len(l[i]) |->
     Div(l[i][c], Max(tiny, SumSeq(l[i])))]]

\* column sums of an n-by-k matrix
ColSums(l, k) == [c \in 1..k |-> SumSeq([i \in 1..Len(l) |-> l[i][c]])]

\* GMM.pop
pop(self, l) == ColSums(Normalized(l), self.k)

\* np.dot(like.T, x): k-by-dim
DotT(like, x, k, dim) ==
  [c \in 1..k |-> [j \in 1..dim |->
     SumSeq([i \in 1..Len(x) |-> Mul(like[i][c], x[i][j])])]]

\* a variant of the new weights of _Mstep: prior_weights + pop, not divided
\* by the sum
MstepWeightsUnnormalised(self, p) ==
  [c \in 1..self.k |-> self.prior_weights[c] + p[c]]

\* the new weights of _Mstep
MstepWeights(self, p) ==
  LET w == [c \in 1..self.k |-> self.prior_weights[c] + p[c]]
  IN [c \in 1..self.k |-> Div(w[c], SumSeq(w))]

\* a variant of the new means of _Mstep: the empirical means, without the
\* shrinkage to the prior means
MstepMeansEmpirical(self, x, like, p) ==
  LET lx == DotT(like, x, self.k, self.dim)
  IN [c \in 1..self.k |-> [j \in 1..self.dim |->
        Div(lx[c][j], Max(p[c], tiny))]]

\* the new means of _Mstep
MstepMeans(self, x, like, p) ==
  LET lx == DotT(like, x, self.k, self.dim)
  IN [c \in 1..self.k |-> [j \in 1..self.dim |->
        Div(lx[c][j] + Mul(self.prior_means[c][j], self.prior_shrinkage),
            p[c] + self.prior_shrinkage)]]

\* the new precisions of _Mstep
MstepPrecisions(self, x, like, p) ==
  LET lx == DotT(like, x, self.k, self.dim)
      empmeans == [c \in 1..self.k |-> [j \in 1..self.dim |->
                     Div(lx[c][j], Max(p[c], tiny))]]
      dx == [i \in 1..Len(x) |-> [c \in 1..self.k |->
               [j \in 1..self.dim |-> x[i][j] - empmeans[c][j]]]]
      dm == [c \in 1..self.k |->
               [j \in 1..self.dim |-> empmeans[c][j] - self.prior_means[c][j]]]
      apms == [c \in 1..self.k |->
                 Div(Mul(self.prior_shrinkage, p[c]),
                     p[c] + self.prior_shrinkage)]
      dof == [c \in 1..self.k |->
                self.prior_dof * ONE + p[c] + (self.dim + 2) * ONE]
      covFull(c) ==
        LET pr == Pinv(self.prior_scale[c])
        IN [r \in 1..self.dim |-> [j \in 1..self.dim |->
              Div(pr[r][j]
                  + SumSeq([i \in 1..Len(x) |->
                      Mul(dx[i][c][r], Mul(like[i][c], dx[i][c][j]))])
                  + Mul(Mul(dm[c][r], dm[c][j]), apms[c]),
                  dof[c])]]
      covDiag(c) ==
        LET addcov == SumSeq([j \in 1..self.dim |-> Mul(dm[c][j], dm[c][j])])
        IN [j \in 1..self.dim |->
              Div(Div(ONE, self.prior_scale[c][j])
                  + SumSeq([i \in 1..Len(x) |->
                      Mul(Mul(dx[i][c][j], dx[i][c][j]), like[i][c])])
                  + Mul(addcov, apms[c]),
                  dof[c])]
  IN IF self.prec_type = "full"
     THEN Arr(<<self.k, self.dim, self.dim>>,
              [c \in 1..self.k |-> Pinv(covFull(c))])
     ELSE Arr(<<self.k, self.dim>>,
              [c \in 1..self.k |->
                 LET cov == covDiag(c)
                 IN [j \in 1..self.dim |-> Div(ONE, cov[j])]])

\* a variant of _Mstep: the new means are kept as the prior means as well
MstepUpdatesPrior(self, x, like) ==
  IF ~self.prior_set
  THEN [self |-> self, like |-> like, err |-> "AttributeError"]
  ELSE LET p == pop(self, like)
           nl == Normalized(like)
           m == MstepMeans(self, x, nl, p)
       IN [self |-> [self EXCEPT
                       !.weights = Arr(<<self.k>>, MstepWeights(self, p)),
                       !.means = Arr(<<self.k, self.dim>>, m),
                       !.precisions = MstepPrecisions(self, x, nl, p),
                       !.prior_means = m],
           like |-> like, err |-> "ok"]

\* a variant of _Mstep: on a model without prior the weights are bound to
\* the populations before the error is raised
MstepAssignsBeforeRaise(self, x, like) ==
  IF ~self.prior_set
  THEN [self |-> [self EXCEPT
                    !.weights = Arr(<<self.k>>, pop(self, like))],
        like |-> like, err |-> "AttributeError"]
  ELSE LET p == pop(self, like)
           nl == Normalized(like)
       IN [self |-> [self EXCEPT
                       !.weights = Arr(<<self.k>>, MstepWeights(self, p)),
                       !.means = Arr(<<self.k, self.dim>>,
                                     MstepMeans(self, x, nl, p)),
                       !.precisions = MstepPrecisions(self, x, nl, p)],
           like |-> like, err |-> "ok"]

\* GMM._Mstep: the first statement that reads a prior_* attribute raises
\* AttributeError on a model without prior, before any field is assigned.
\* like = (like.T/sl).T binds the local name to a new array: the field like
\* of the result is the caller's matrix after the call
Mstep(self, x, like) ==
  IF ~self.prior_set
  THEN [self |-> self, like |-> like, err |-> "AttributeError"]
  ELSE LET p == pop(self, like)
           nl == Normalized(like)
       IN [self |-> [self EXCEPT
                       !.weights = Arr(<<self.k>>, MstepWeights(self, p)),
                       !.means = Arr(<<self.k, self.dim>>,
                                     MstepMeans(self, x, nl, p)),
                       !.precisions = MstepPrecisions(self, x, nl, p)],
           like |-> like, err |-> "ok"]

\* GMM.update
update(self, x, l) == Mstep(self, x, l)

\* GMM.guess_regularizing: the prior_* attributes and the weights are
\* assigned, then check() runs (bcheck=1)
guess_regularizing(self, x) ==
  LET n == Len(x)
      mx == [j \in 1..self.dim |->
               SumSeq([i \in 1..n |-> x[i][j]]) \div n]
      vx(j) == SumSeq([i \in 1..n |->
                 Mul(x[i][j] - mx[j], x[i][j] - mx[j])]) \div n
      scale == Exp(Mul(Div(2 * ONE, self.dim * ONE), Log(self.k * ONE)))
      px == IF self.prec_type = "full"
            THEN [r \in 1..self.dim |-> [j \in 1..self.dim |->
                    IF r = j THEN Mul(Div(ONE, vx(j)), scale) ELSE 0]]
            ELSE [j \in 1..self.dim |-> Mul(Div(ONE, vx(j)), scale)]
      g == [self EXCEPT
              !.prior_set = TRUE,
              !.prior_means = [c \in 1..self.k |-> mx],
              !.prior_weights = [c \in 1..self.k |-> Div(ONE, self.k * ONE)],
              !.prior_scale = [c \in 1..self.k |-> px],
              !.prior_dof = self.dim + 2,
              !.prior_shrinkage = small,
              !.weights = Uniform(self.k)]
  IN [self |-> g, err |-> check(g)]

\* a variant of the membership matrix: the labels taken as counted from 1
OneHotFromOne(z, k) ==
  [i \in 1..Len(z) |-> [c \in 1..k |-> IF z[i] = c THEN ONE ELSE 0]]

\* the membership matrix of initialize: l[np.arange(n), z] = 1
OneHot(z, k) ==
  [i \in 1..Len(z) |-> [c \in 1..k |-> IF z[i] = c - 1 THEN ONE ELSE 0]]

\* GMM.initialize, z being the labels of fc.kmeans (all 0 when k = 1)
initialize(self, x, z) ==
  LET g == guess_regularizing(self, x)
  IN IF g.err # "ok" THEN g ELSE update(g.self, x, OneHot(z, self.k))

\* GMM.evidence on a dataset that passed check_x
evidence(self, x) == bic(self, likelihood(self, x))

\* ------------------------------------------------------------------------
\* Inputs
\* ------------------------------------------------------------------------
\* sample values of the datasets (floats 0, 1.5, 2, 2.5, 5)
SampleValues == <<0, (3 * ONE) \div 2, 2 * ONE, (5 * ONE) \div 2, 5 * ONE>>

\* the dataset of n rows of length dim: row i holds the sample values from
\* the i-th on, so that no column is constant and no two columns are equal
Sample(n, dim) ==
  Arr(<<n, dim>>,
      [i \in 1..n |-> [j \in 1..dim |->
         SampleValues[((i + j - 2) % Len(SampleValues)) + 1]]])

\* the datasets a model of dimension dim is fitted to
DataSets(dim) == {Sample(Len(SampleValues), dim)}

\* the first column of a dataset as an array of rank 1
Flat(d) == Arr(<<d.shape[1]>>, [i \in 1..Len(d.a) |-> d.a[i][1]])

\* a dataset with one more column
Wider(d) ==
  Arr(<<d.shape[1], d.shape[2] + 1>>,
      [i \in 1..Len(d.a) |-> Append(d.a[i], ONE)])

\* np.zeros((0, cols)): a dataset without rows
EmptyData(cols) == Arr(<<0, cols>>, <<>>)

\* the datasets handed to the operations that run check_x
ArgData(d) == <<d, Flat(d), Wider(d), EmptyData(d.shape[2] + 1)>>

\* the number of entries of a row of dataset x (1 for an array of rank 1)
RowLength(x) == IF Len(x.shape) = 1 THEN 1 ELSE x.shape[2]

\* fc.kmeans(x, k) returns labels z of the samples, each in 0..k-1.  Its
\* outcomes are the labellings that k-means can stop at: no cluster is
\* empty and every sample is nearer to the centroid of its own cluster than
\* to any other centroid.  Clusters are numbered in the order in which
\* their first samples come.
Members(z, c) == {i \in 1..Len(z) : z[i] = c}

Centroid(x, z, c) ==
  [j \in 1..Len(x[1]) |->
     SumSeq([i \in 1..Len(x) |-> IF z[i] = c THEN x[i][j] ELSE 0])
       \div Cardinality(Members(z, c))]

Dist2(p, q) == SumSeq([j \in 1..Len(p) |-> (p[j] - q[j]) * (p[j] - q[j])])

First(S) == CHOOSE i \in S : \A j \in S : i <= j

StableLabels(x, z, k) ==
  /\ \A c \in 0..(k - 1) : Members(z, c) # {}
  /\ \A c \in 1..(k - 1) : First(Members(z, c - 1)) < First(Members(z, c))
  /\ LET cent == [c \in 0..(k - 1) |-> Centroid(x, z, c)]
     IN \A i \in 1..Len(x) : \A c \in 0..(k - 1) :
          c # z[i] => Dist2(x[i], cent[z[i]]) < Dist2(x[i], cent[c])

KMeans(x, k) ==
  {z \in [1..Len(x) -> 0..(k - 1)] : StableLabels(x, z, k)}

\* the labels initialize() works with: kmeans is not called when k = 1
Labels(x, k) == IF k > 1 THEN KMeans(x, k) ELSE {[i \in 1..Len(x) |-> 0]}

\* responsibility matrices (non-negative entries) handed to update()
RespChoices(n, k) ==
  {[i \in 1..n |-> [c \in 1..k |-> 0]],
   [i \in 1..n |-> [c \in 1..k |-> ONE]],
   [i \in 1..n |-> [c \in 1..k |-> IF c = 1 THEN ONE ELSE 0]],
   [i \in 1..n |-> [c \in 1..k |-> ((i + c) * ONE) \div 4]]}

\* parameter arrays handed to the constructor and to plugin(): one triple of
\* the right shapes, and one triple per field whose shape is wrong
GoodPrecisions(k, dim, prec_type) ==
  IF prec_type = "full"
  THEN Arr(<<k, dim, dim>>,
           [c \in 1..k |-> [i \in 1..dim |-> [j \in 1..dim |->
              IF i = j THEN 2 * ONE ELSE 0]]])
  ELSE Arr(<<k, dim>>, [c \in 1..k |-> [j \in 1..dim |-> 2 * ONE]])

Params(m, p, w) == [means |-> m, precisions |-> p, weights |-> w]

ParamChoices(k, dim, prec_type) ==
  <<Params(Ones2(k, dim), GoodPrecisions(k, dim, prec_type), Uniform(k)),
   Params(Zeros2(k + 1, dim), GoodPrecisions(k, dim, prec_type), Uniform(k)),
   Params(Ones2(k, dim),
          IF prec_type = "full" THEN Ones2(k, dim) ELSE EyeStack(k, dim),
          Uniform(k)),
   Params(Ones2(k, dim), GoodPrecisions(k, dim, prec_type), Uniform(k + 1))>>

NoParams == Params(None, None, None)

\* the shapes the numerical code computes with: the numerical operations
\* are modelled on models of these shapes only
WellShaped(g) ==
  /\ g.means.shape = <<g.k, g.dim>>
  /\ g.weights.shape = <<g.k>>
  /\ g.precisions.shape = IF g.prec_type = "full"
                          THEN <<g.k, g.dim, g.dim>>
                          ELSE <<g.k, g.dim>>

\* convergence thresholds delta: 0 (the default 1.e-4 is below the
\* resolution) and 100.0
Deltas == {0, 100 * ONE}

\* the krange lists of best_fitting_GMM
RECURSIVE SeqsUpTo(_, _)
SeqsUpTo(S, n) ==
  IF n = 0 THEN {<<>>}
  ELSE LET r == SeqsUpTo(S, n - 1)
       IN r \cup {Append(q, e) : q \in {t \in r : Len(t) = n - 1}, e \in S}

KRanges == SeqsUpTo(1..MaxK, 2)

\* the dimensions of the models: the resolution of the numbers carries the
\* determinants and inverses of 1-by-1 and 2-by-2 matrices
Dims == {1, 2}

\* ------------------------------------------------------------------------
\* neuroimaging/utils/enthought/traits/has_dynamic_views.py:
\* HasDynamicViews._get_dynamic_elements
\* ------------------------------------------------------------------------
\* the largest number of view sub-elements an object holds
MaxElems == 3

\* A metadata attribute '_<name>_order' or '_<name>_priority' of a view
\* sub-element is None (Unset) or a number v, held as <<v>>.
Unset == <<>>

Meta(v) == <<v>>

\* the dynamic view that is requested, and the name of the dynamic
\* sub-elements contributed to it
ViewNames == {"view", "sub"}

\* a view sub-element: id tells the objects apart; kind is "element" for a
\* ViewSubElement, "dynamic" for a DynamicViewSubElement (whose name is
\* "sub") and "composed" for what _build_dynamic_sub_element returns, whose
\* parts are the elements it was built from
Element(id, kind, vorder, vpriority, sorder) ==
  [id |-> id, kind |-> kind,
   order |-> [view |-> vorder, sub |-> sorder],
   priority |-> [view |-> vpriority, sub |-> Unset],
   parts |-> <<>>]

\* the sub-elements a contributor can add to an object: one that goes into
\* the view at order 1 or 2 with a priority of None, 0 or 1, as a plain or
\* a dynamic sub-element, or a plain one that goes into no view or into the
\* dynamic sub-element
Contributions(id) ==
  {Element(id, kind, Meta(o), p, Unset) :
     kind \in {"element", "dynamic"}, o \in 1..2,
     p \in {Unset, Meta(0), Meta(1)}}
  \cup {Element(id, "element", Unset, Unset, s) : s \in {Unset, Meta(1)}}

\* the lists self.trait_views(klass=ViewSubElement) can give, in the order
\* in which the loop meets the elements
RECURSIVE ElementLists(_)
ElementLists(n) ==
  IF n = 0 THEN {<<>>}
  ELSE LET r == ElementLists(n - 1)
       IN r \cup {Append(q, e) : q \in {t \in r : Len(t) = n - 1},
                                 e \in Contributions(n)}

\* elements = [e for e in all_elements if hasattr(e, order_trait_name)
\*             and getattr(e, order_trait_name) is not None]
RECURSIVE WithOrder(_, _)
WithOrder(all, name) ==
  IF all = <<>> THEN <<>>
  ELSE LET rest == WithOrder(Tail(all), name)
       IN IF Head(all).order[name] # Unset
          THEN <<Head(all)>> \o rest
          ELSE rest

\* priority = getattr(e, priority_trait_name) or 0
PriorityOrZero(p) == IF p = Unset THEN 0 ELSE p[1]

\* current_priority < priority, where current_priority is read without
\* "or 0": None is smaller than every number (Python 2 ordering)
LowerPriority(current_priority, priority) ==
  IF current_priority = Unset THEN TRUE ELSE current_priority[1] < priority

\* one pass of the loop over elements: filtered maps order values to
\* elements; setdefault keeps what is there, and e takes the place of an
\* element of lower priority
FilterOne(filtered, e, name) ==
  LET order == e.order[name][1]
      priority == PriorityOrZero(e.priority[name])
  IN IF order \notin DOMAIN filtered THEN filtered @@ (order :> e)
     ELSE LET current == filtered[order]
          IN IF current.id # e.id
                /\ LowerPriority(current.priority[name], priority)
             THEN [filtered EXCEPT ![order] = e]
             ELSE filtered

RECURSIVE FilterAll(_, _, _)
FilterAll(filtered, elements, name) ==
  IF elements = <<>> THEN filtered
  ELSE FilterAll(FilterOne(filtered, Head(elements), name),
                 Tail(elements), name)

\* a variant of the sort: the keys in descending order
RECURSIVE SortedDescending(_)
SortedDescending(S) ==
  IF S = {} THEN <<>>
  ELSE LET m == CHOOSE v \in S : \A w \in S : w <= v
       IN <<m>> \o SortedDescending(S \ {m})

\* ordering = filtered.keys(); ordering.sort()
RECURSIVE Sorted(_)
Sorted(S) ==
  IF S = {} THEN <<>>
  ELSE LET m == CHOOSE v \in S : \A w \in S : v <= w
       IN <<m>> \o Sorted(S \ {m})

\* elements = [filtered[order] for order in ordering]
InOrder(filtered) ==
  LET ordering == Sorted(DOMAIN filtered)
  IN [i \in 1..Len(ordering) |-> filtered[ordering[i]]]

\* _build_dynamic_sub_element: definition.klass(*sub_elements, **keywords),
\* a new element without order or priority
Composed(definition, sub_elements) ==
  [id |-> definition.id, kind |-> "composed",
   order |-> [view |-> Unset, sub |-> Unset],
   priority |-> [view |-> Unset, sub |-> Unset],
   parts |-> sub_elements]

\* _get_dynamic_elements(name) for the name of a dynamic sub-element, none
\* of whose contributions is dynamic itself
GetSubElements(all, name) ==
  InOrder(FilterAll(<<>>, WithOrder(all, name), name))

\* _compose_dynamic_sub_element(e)
ComposeSubElement(all, e) == Composed(e, GetSubElements(all, "sub"))

\* elements.pop(i), i counted from 0
Pop(elements, i) ==
  SubSeq(elements, 1, i) \o SubSeq(elements, i + 2, Len(elements))

\* elements.insert(i, composed), i counted from 0
Insert(elements, i, composed) ==
  SubSeq(elements, 1, i) \o <<composed>> \o SubSeq(elements, i + 1, Len(elements))

\* where a call of _get_dynamic_elements stands: the list all_elements, the
\* list elements, the dict filtered, the index of the running loop, and the
\* list elements as the sort left it
ViewsStart(all) ==
  [pc |-> "call", all |-> all, elements |-> <<>>, filtered |-> <<>>,
   pos |-> 0, sorted |-> <<>>]

\* no call of _get_dynamic_elements
NoViews == [ViewsStart(<<>>) EXCEPT !.pc = "none"]

\* ------------------------------------------------------------------------
\* Arrays shared by two models.  plugin binds the fields of the receiver to
\* the arrays it is given, so after bestgmm.plugin(self.means,
\* self.precisions, self.weights) the two models hold the same arrays, until
\* a field of one of them is bound to another array.
\* ------------------------------------------------------------------------
ParamFields == {"means", "precisions", "weights"}

\* How an operation assigns the parameters of self: rebound are the fields
\* it binds to a new array (self.means = ...), inplace those it writes into
\* the array that is there.
\* a variant of _Mstep: the new values are written into the arrays
MstepStoresInPlace == [rebound |-> {}, inplace |-> ParamFields]

\* GMM._Mstep: self.weights =, self.means =, self.precisions =
MstepStores == [rebound |-> ParamFields, inplace |-> {}]

\* GMM.guess_regularizing: self.weights = np.ones(self.k)*1.0/self.k
GuessStores == [rebound |-> {"weights"}, inplace |-> {}]

\* GMM.plugin: self.means = means, self.precisions = precisions,
\* self.weights = weights
PluginStores == [rebound |-> ParamFields, inplace |-> {}]

\* model b with the fields al whose arrays it shares with another model
Holding(b, al) == [gmm |-> b, alias |-> al]

\* h after an operation that assigned the fields of the other model as st
\* says and left it as s2: b sees what was written into a shared array, and
\* a field that was bound to a new array is shared no longer
Stored(h, s2, st) ==
  LET seen(f) == f \in h.alias \cap st.inplace
  IN [gmm |-> [h.gmm EXCEPT
                 !.means = IF seen("means") THEN s2.means ELSE @,
                 !.precisions = IF seen("precisions") THEN s2.precisions
                                ELSE @,
                 !.weights = IF seen("weights") THEN s2.weights ELSE @],
      alias |-> h.alias \ st.rebound]

\* ------------------------------------------------------------------------
\* State
\* ------------------------------------------------------------------------
VARIABLES
  self,     \* the GMM object the methods are called on
  fresh,    \* self was built with no means, precisions, weights given
            \* and no operation has assigned a field since
  data,     \* the dataset of the session (shape (n, dim))
  x,        \* the dataset argument of the running call
  pc,       \* where the running call stands; "idle" between calls
  op,       \* the public operation that is running
  calls,    \* number of public operations called so far
  pre,      \* self as it was when the running (or last) call started
  out,      \* how the last call ended: [op, status, ret]
  est,      \* local variables of estimate
  prev,     \* the last estimate call on self, while self is as it left it
  iae,      \* local variables of initialize_and_estimate
  bestgmm,  \* bestgmm of initialize_and_estimate
  bfg,      \* local variables of best_fitting_GMM
  bgmm,     \* bgmm of best_fitting_GMM
  seeding,  \* the initialize calls of the running operation
  alias,    \* the fields of bestgmm whose arrays are the arrays of self
  views     \* the running call of _get_dynamic_elements

\* the variables of the GMM session
gmmvars == <<self, fresh, data, x, pc, op, calls, pre, out, est, prev, iae,
             bestgmm, bfg, bgmm, seeding, alias>>

vars == <<gmmvars, views>>

\* no object
NoGMM == GMM(0, 0, "none", Arr(<<0>>, <<>>), Arr(<<0>>, <<>>), Arr(<<0>>, <<>>))

NoData == Arr(<<0>>, <<>>)

\* a variant of estimate before its loop: allOld = np.infty
EstStartHigh(niter, delta) ==
  [niter |-> niter, delta |-> delta, x |-> NoData, i |-> 0,
   lset |-> FALSE, l |-> <<>>,
   all |-> NaN, allOld |-> PosInf, nE |-> 0, nM |-> 0, conv |-> FALSE,
   ret |-> NaN, resumed |-> FALSE]

\* estimate before its loop: x is the argument until check_x has run, l is
\* not bound, allOld = -np.infty.  resumed tells that the call was made on
\* a model as a call of estimate that ended by the test had left it.
EstStart(niter, delta) ==
  [niter |-> niter, delta |-> delta, x |-> NoData, i |-> 0,
   lset |-> FALSE, l |-> <<>>,
   all |-> NaN, allOld |-> NegInf, nE |-> 0, nM |-> 0, conv |-> FALSE,
   ret |-> NaN, resumed |-> FALSE]

NoEst == EstStart(0, 0)

NoPrev == [valid |-> FALSE, x |-> NoData, all |-> NaN]

\* the prior_* attributes of a model
Prior(g) ==
  [means |-> g.prior_means, weights |-> g.prior_weights,
   scale |-> g.prior_scale, dof |-> g.prior_dof,
   shrinkage |-> g.prior_shrinkage]

\* initialize_and_estimate before its loop.  nG counts the calls of
\* guess_regularizing on self in the running trial, prior is what the last
\* of them set.
IaeStart(niter, delta, ninit) ==
  [niter |-> niter, delta |-> delta, ninit |-> ninit, i |-> 0,
   bestbic |-> NegInf, cycles |-> <<>>, nG |-> 0, prior |-> Prior(NoGMM)]

NoIae == IaeStart(0, 0, 0)

BfgStart(krange, prec_type, niter, delta, ninit) ==
  [krange |-> krange, prec_type |-> prec_type, niter |-> niter,
   delta |-> delta, ninit |-> ninit, dim |-> 0, pos |-> 0,
   bestbic |-> NegInf, bound |-> FALSE, bestpos |-> 0, cands |-> <<>>]

NoBfg == BfgStart(<<>>, "none", 0, 0, 0)

\* the fc.kmeans calls of one initialize: "if self.k>1: ... fc.kmeans(x,
\* self.k)"
KMeansCalls(k) == IF k > 1 THEN 1 ELSE 0

\* what the initialize calls of the running operation did: the labels z
\* and the membership matrix l of the last one, the number of fc.kmeans
\* calls and the number of update calls.  In a call of update, l is the
\* matrix it was handed.
NoSeeding == [z |-> <<>>, l |-> <<>>, kmeans |-> 0, updates |-> 0]

\* one more initialize has got past guess_regularizing, with labels z
Seeded(s, z, k) ==
  [z |-> z, l |-> OneHot(z, k), kmeans |-> s.kmeans + KMeansCalls(k),
   updates |-> s.updates + 1]

NoOut == [op |-> "none", status |-> "none", ret |-> NaN]

\* a session starts with a dataset and either an object just built,
\* GMM(k, dim, prec_type, means, precisions, weights), or no object, which
\* is where the module-level best_fitting_GMM is called
Init ==
  /\ \E dim \in Dims :
       /\ data \in DataSets(dim)
       /\ \/ \E k \in 1..MaxK, prec_type \in PrecTypes :
               \E n \in 0..Len(ParamChoices(k, dim, prec_type)) :
                 LET a == IF n = 0 THEN NoParams
                          ELSE ParamChoices(k, dim, prec_type)[n]
                 IN /\ self = GMM(k, dim, prec_type,
                                  a.means, a.precisions, a.weights)
                    /\ fresh = (n = 0)
          \/ /\ self = NoGMM
             /\ fresh = FALSE
  /\ x = NoData
  /\ pc = "idle"
  /\ op = "none"
  /\ calls = 0
  /\ pre = self
  /\ out = NoOut
  /\ est = NoEst
  /\ prev = NoPrev
  /\ iae = NoIae
  /\ bestgmm = NoGMM
  /\ bfg = NoBfg
  /\ bgmm = NoGMM
  /\ seeding = NoSeeding
  /\ alias = {}
  /\ views = NoViews

\* ------------------------------------------------------------------------
\* Calls that run in one step
\* ------------------------------------------------------------------------
\* a public operation starts on the idle object
\* an object exists in the session
HasObject == self.k > 0

\* a method of self can be called
Idle == pc = "idle" /\ calls < MaxCalls /\ HasObject

\* the frame of a call that runs in one step on self
OneStep(name, status, ret) ==
  /\ pc' = "done"
  /\ op' = name
  /\ calls' = calls + 1
  /\ pre' = self
  /\ out' = [op |-> name, status |-> status, ret |-> ret]
  /\ UNCHANGED <<data, est, iae, bfg, bgmm>>

\* the caller of self.initialize_and_estimate keeps the model it returned,
\* whatever it calls on self next; a call that raised returned no model,
\* and after best_fitting_GMM no object is left
Kept(name, status) ==
  /\ name # "best_fitting_GMM"
  /\ ~(name = "initialize_and_estimate" /\ status # "ok")

\* the caller has looked at the outcome of the call and goes on
Return ==
  /\ pc = "done"
  /\ pc' = "idle"
  /\ op' = "none"
  /\ out' = NoOut
  /\ x' = NoData
  /\ pre' = self
  /\ LET kept == Kept(op, out.status)
     IN /\ bestgmm' = IF kept THEN bestgmm ELSE NoGMM
        /\ alias' = IF kept THEN alias ELSE {}
  /\ bgmm' = NoGMM
  /\ seeding' = NoSeeding
  /\ UNCHANGED <<self, fresh, data, calls, est, prev, iae, bfg>>
  /\ UNCHANGED views

\* self.plugin(means, precisions, weights)
Plugin ==
  /\ Idle
  /\ \E n \in 1..Len(ParamChoices(self.k, self.dim, self.prec_type)) :
       LET a == ParamChoices(self.k, self.dim, self.prec_type)[n]
           r == plugin(self, a.means, a.precisions, a.weights)
           h == Stored(Holding(bestgmm, alias), r.self, PluginStores)
       IN /\ self' = r.self
          /\ bestgmm' = h.gmm
          /\ alias' = h.alias
          /\ OneStep("plugin", r.err, NaN)
  /\ fresh' = FALSE
  /\ prev' = NoPrev
  /\ x' = NoData
  /\ UNCHANGED <<seeding, views>>

\* self.check()
Check ==
  /\ Idle
  /\ OneStep("check", check(self), NaN)
  /\ x' = NoData
  /\ UNCHANGED <<self, fresh, prev, bestgmm>>
  /\ UNCHANGED <<seeding, alias, views>>

\* self.initialize(x)
Initialize ==
  /\ Idle
  /\ WellShaped(self)
  /\ \E z \in Labels(data.a, self.k) :
       LET r == initialize(self, data.a, z)
           g == guess_regularizing(self, data.a)
           hg == Stored(Holding(bestgmm, alias), g.self, GuessStores)
           h == IF g.err = "ok" /\ r.err = "ok"
                THEN Stored(hg, r.self, MstepStores)
                ELSE hg
       IN /\ self' = r.self
          /\ bestgmm' = h.gmm
          /\ alias' = h.alias
          /\ OneStep("initialize", r.err, NaN)
          /\ seeding' = IF g.err = "ok"
                        THEN Seeded(seeding, z, self.k)
                        ELSE seeding
  /\ fresh' = FALSE
  /\ prev' = NoPrev
  /\ x' = data
  /\ UNCHANGED views

\* self.update(x, l)
Update ==
  /\ Idle
  /\ WellShaped(self)
  /\ \E l \in RespChoices(Len(data.a), self.k) :
       LET r == update(self, data.a, l)
           h == IF r.err = "ok"
                THEN Stored(Holding(bestgmm, alias), r.self, MstepStores)
                ELSE Holding(bestgmm, alias)
       IN /\ self' = r.self
          /\ bestgmm' = h.gmm
          /\ alias' = h.alias
          /\ OneStep("update", r.err, NaN)
          /\ seeding' = [NoSeeding EXCEPT !.l = l]
          /\ fresh' = (fresh /\ r.err # "ok")
          /\ prev' = IF r.err = "ok" THEN NoPrev ELSE prev
  /\ x' = data
  /\ UNCHANGED views

\* self.mixture_likelihood(x): the returned array is not kept
MixtureLikelihood ==
  /\ Idle
  /\ WellShaped(self)
  /\ \E n \in 1..Len(ArgData(data)) :
       LET xa == ArgData(data)[n]
           c == check_x(self, xa)
       IN /\ x' = c.arg
          /\ OneStep("mixture_likelihood", c.err, NaN)
  /\ UNCHANGED <<self, fresh, prev, bestgmm>>
  /\ UNCHANGED <<seeding, alias, views>>

\* self.average_log_like(x)
AverageLogLike ==
  /\ Idle
  /\ WellShaped(self)
  /\ \E n \in 1..Len(ArgData(data)) :
       LET xa == ArgData(data)[n]
           c == check_x(self, xa)
       IN /\ x' = c.arg
          /\ OneStep("average_log_like", c.err,
                     IF c.err = "ok"
                     THEN MeanLog(RowSums(likelihood(self, c.x.a)))
                     ELSE NaN)
  /\ UNCHANGED <<self, fresh, prev, bestgmm>>
  /\ UNCHANGED <<seeding, alias, views>>

\* self.evidence(x)
Evidence ==
  /\ Idle
  /\ WellShaped(self)
  /\ \E n \in 1..Len(ArgData(data)) :
       LET xa == ArgData(data)[n]
           c == check_x(self, xa)
       IN /\ x' = c.arg
          /\ OneStep("evidence", c.err,
                     IF c.err = "ok" THEN evidence(self, c.x.a) ELSE NaN)
  /\ UNCHANGED <<self, fresh, prev, bestgmm>>
  /\ UNCHANGED <<seeding, alias, views>>

\* ------------------------------------------------------------------------
\* Calls that run in several steps
\* ------------------------------------------------------------------------
\* the running public operation ends: it returns (status "ok") or an
\* exception leaves every frame.  s, p, f are self, prev and fresh as the
\* operation leaves them; the objects best_fitting_GMM worked on were its
\* own.
Finish(status, ret, s, p, f) ==
  /\ pc' = "done"
  /\ out' = [op |-> op, status |-> status, ret |-> ret]
  /\ self' = IF op = "best_fitting_GMM" THEN NoGMM ELSE s
  /\ prev' = IF op = "best_fitting_GMM" THEN NoPrev ELSE p
  /\ fresh' = IF op = "best_fitting_GMM" THEN FALSE ELSE f
  /\ est' = NoEst
  /\ iae' = NoIae
  /\ bfg' = NoBfg
  /\ UNCHANGED <<data, x, op, calls, pre>>

\* self.estimate(x, niter, delta) is called
CallEstimate ==
  /\ Idle
  /\ WellShaped(self)
  /\ \E n \in 1..Len(ArgData(data)), niter \in 0..MaxIter, delta \in Deltas :
       /\ x' = ArgData(data)[n]
       /\ est' = [EstStart(niter, delta) EXCEPT !.resumed = prev.valid]
  /\ pc' = "est_enter"
  /\ op' = "estimate"
  /\ calls' = calls + 1
  /\ pre' = self
  /\ out' = NoOut
  /\ UNCHANGED <<self, fresh, data, prev, iae, bestgmm, bfg, bgmm>>
  /\ UNCHANGED <<seeding, alias, views>>

\* estimate: x = self.check_x(x)
EstEnter ==
  /\ pc = "est_enter"
  /\ LET c == check_x(self, x)
     IN IF c.err # "ok"
        THEN /\ Finish(c.err, NaN, self, prev, fresh)
             /\ UNCHANGED <<bestgmm, bgmm>>
        ELSE /\ est' = [est EXCEPT !.x = c.x]
             /\ x' = c.arg
             /\ pc' = "est_loop"
             /\ UNCHANGED <<self, fresh, data, op, calls, pre, out, prev,
                            iae, bestgmm, bfg, bgmm>>
  /\ UNCHANGED <<seeding, alias, views>>

\* a variant of the loop body of estimate: the M step runs before the break
MstepBeforeBreak(stop) == "est_m"

\* estimate, where the loop body goes after the test all < allOld + delta:
\* break, or on to the M step
AfterTest(stop) == IF stop THEN "est_ret" ELSE "est_m"

\* a variant of the test of estimate: all <= allOld + delta
ConvergedOrEqual(all, allOld, delta) == AtMost(all, Plus(allOld, delta))

\* estimate, the test that ends the loop: all < allOld + delta
Converged(all, allOld, delta) == Less(all, Plus(allOld, delta))

\* estimate, one pass of the loop up to the test: the E step, the average
\* log-likelihood, and the break when all < allOld + delta
EstIterate ==
  /\ pc = "est_loop"
  /\ est.i < est.niter
  /\ LET l == Estep(self, est.x.a)
         all == MeanLog(RowSums(l))
         stop == Converged(all, est.allOld, est.delta)
     IN /\ est' = [est EXCEPT !.l = l, !.lset = TRUE, !.all = all,
                              !.nE = @ + 1, !.conv = stop,
                              !.allOld = IF stop THEN @ ELSE all]
        /\ pc' = AfterTest(stop)
  /\ UNCHANGED <<self, fresh, data, x, op, calls, pre, out, prev, iae,
                 bestgmm, bfg, bgmm>>
  /\ UNCHANGED <<seeding, alias, views>>

\* estimate: range(niter) is used up
EstExhausted ==
  /\ pc = "est_loop"
  /\ est.i >= est.niter
  /\ pc' = "est_ret"
  /\ UNCHANGED <<self, fresh, data, x, op, calls, pre, out, est, prev, iae,
                 bestgmm, bfg, bgmm>>
  /\ UNCHANGED <<seeding, alias, views>>

\* estimate: self._Mstep(x, l), the last statement of the loop body
EstMstep ==
  /\ pc = "est_m"
  /\ LET r == Mstep(self, est.x.a, est.l)
     IN IF r.err # "ok"
        THEN /\ Finish(r.err, NaN, r.self, prev, fresh)
             /\ UNCHANGED <<bestgmm, bgmm, alias>>
        ELSE /\ self' = r.self
             /\ LET h == Stored(Holding(bestgmm, alias), r.self,
                                MstepStores)
                IN bestgmm' = h.gmm /\ alias' = h.alias
             /\ fresh' = FALSE
             /\ prev' = NoPrev
             /\ est' = [est EXCEPT !.i = @ + 1, !.nM = @ + 1, !.l = r.like]
             /\ pc' = "est_loop"
             /\ UNCHANGED <<data, x, op, calls, pre, out, iae, bfg, bgmm>>
  /\ UNCHANGED <<seeding, views>>

\* estimate: return self.bic(l); l is not bound when the loop never ran
EstReturn ==
  /\ pc = "est_ret"
  /\ IF ~est.lset
     THEN /\ Finish("UnboundLocalError", NaN, self, prev, fresh)
          /\ UNCHANGED <<bestgmm, bgmm>>
     ELSE LET ret == bic(self, est.l)
              p == IF est.conv
                   THEN [valid |-> TRUE, x |-> est.x, all |-> est.all]
                   ELSE NoPrev
          IN IF op = "estimate"
             THEN /\ Finish("ok", ret, self, p, fresh)
                  /\ UNCHANGED <<bestgmm, bgmm>>
             ELSE /\ est' = [est EXCEPT !.ret = ret]
                  /\ prev' = p
                  /\ pc' = "iae_cmp"
                  /\ UNCHANGED <<self, fresh, data, x, op, calls, pre, out,
                                 iae, bestgmm, bfg, bgmm>>
  /\ UNCHANGED <<seeding, alias, views>>

\* self.initialize_and_estimate(x, z=None, niter, delta, ninit) is called,
\* as the first operation on a model built by GMM(k, dim, prec_type), which
\* is how best_fitting_GMM calls it
CallIae ==
  /\ Idle
  /\ calls = 0
  /\ fresh
  /\ \E niter \in 0..MaxIter, delta \in Deltas, ninit \in 0..MaxInit :
       iae' = IaeStart(niter, delta, ninit)
  /\ x' = data
  /\ pc' = "iae_enter"
  /\ op' = "initialize_and_estimate"
  /\ calls' = calls + 1
  /\ pre' = self
  /\ out' = NoOut
  /\ UNCHANGED <<self, fresh, data, est, prev, bestgmm, bfg, bgmm>>
  /\ UNCHANGED <<seeding, alias, views>>

\* initialize_and_estimate: bestbic = -np.infty; bestgmm = GMM(k, dim,
\* prec_type); bestgmm.initialize(x)
IaeEnter ==
  /\ pc = "iae_enter"
  /\ \E z \in Labels(x.a, self.k) :
       LET r == initialize(GMM(self.k, self.dim, self.prec_type,
                               None, None, None), x.a, z)
       IN /\ bestgmm' = r.self
          /\ alias' = {}
          /\ seeding' = IF r.err = "ok" THEN Seeded(seeding, z, self.k)
                        ELSE seeding
          /\ IF r.err # "ok"
             THEN /\ Finish(r.err, NaN, self, prev, fresh)
                  /\ UNCHANGED bgmm
             ELSE /\ pc' = "iae_loop"
                  /\ UNCHANGED <<self, fresh, data, x, op, calls, pre, out,
                                 est, prev, iae, bfg, bgmm>>
  /\ UNCHANGED views

\* initialize_and_estimate, a trial of range(ninit) begins:
\* self.initialize(x) sets the priors, self.guess_regularizing(x, bcheck=1)
IaeTrial ==
  /\ pc = "iae_loop"
  /\ iae.i < iae.ninit
  /\ LET g == guess_regularizing(self, x.a)
         h == Stored(Holding(bestgmm, alias), g.self, GuessStores)
     IN /\ bestgmm' = h.gmm
        /\ alias' = h.alias
        /\ IF g.err # "ok"
           THEN /\ Finish(g.err, NaN, g.self, NoPrev, FALSE)
                /\ UNCHANGED bgmm
           ELSE /\ self' = g.self
                /\ fresh' = FALSE
                /\ prev' = NoPrev
                /\ iae' = [iae EXCEPT !.nG = @ + 1, !.prior = Prior(g.self)]
                /\ pc' = "iae_init"
                /\ UNCHANGED <<data, x, op, calls, pre, out, est, bfg, bgmm>>
  /\ UNCHANGED <<seeding, views>>

\* initialize_and_estimate, the rest of self.initialize(x): the labels z,
\* the membership matrix and self.update(x, l); then estimate is called
IaeInitialize ==
  /\ pc = "iae_init"
  /\ \E z \in Labels(x.a, self.k) :
       LET r == update(self, x.a, OneHot(z, self.k))
       IN /\ seeding' = Seeded(seeding, z, self.k)
          /\ IF r.err # "ok"
             THEN /\ Finish(r.err, NaN, r.self, NoPrev, FALSE)
                  /\ UNCHANGED <<bestgmm, bgmm, alias>>
             ELSE /\ self' = r.self
                  /\ LET h == Stored(Holding(bestgmm, alias), r.self,
                                     MstepStores)
                     IN bestgmm' = h.gmm /\ alias' = h.alias
                  /\ est' = EstStart(iae.niter, iae.delta)
                  /\ pc' = "est_enter"
                  /\ UNCHANGED <<fresh, data, x, op, calls, pre, out, prev,
                                 iae, bfg, bgmm>>
  /\ UNCHANGED views

\* initialize_and_estimate: range(ninit) is used up
IaeExhausted ==
  /\ pc = "iae_loop"
  /\ iae.i >= iae.ninit
  /\ pc' = "iae_ret"
  /\ UNCHANGED <<self, fresh, data, x, op, calls, pre, out, est, prev, iae,
                 bestgmm, bfg, bgmm>>
  /\ UNCHANGED <<seeding, alias, views>>

\* bic > bestbic, the test of initialize_and_estimate
IaeBetter(b, bestbic) == Less(bestbic, b)

\* initialize_and_estimate, the rest of a trial: bic is what estimate
\* returned; if bic > bestbic the parameters are plugged into bestgmm,
\* which from then on holds the arrays of self.
\* cycles records, per trial, the value estimate returned, how its loop
\* ended, the model the trial ended with and bestgmm after the trial.
IaeCompare ==
  /\ pc = "iae_cmp"
  /\ LET b == est.ret
         better == IaeBetter(b, iae.bestbic)
         r == plugin(bestgmm, self.means, self.precisions, self.weights)
         cyc == [bic |-> b, conv |-> est.conv, model |-> self,
                 best |-> IF better THEN r.self ELSE bestgmm]
     IN IF better /\ r.err # "ok"
        THEN /\ Finish(r.err, NaN, self, prev, fresh)
             /\ bestgmm' = r.self
             /\ alias' = ParamFields
             /\ UNCHANGED bgmm
        ELSE /\ bestgmm' = IF better THEN r.self ELSE bestgmm
             /\ alias' = IF better THEN ParamFields ELSE alias
             /\ iae' = [iae EXCEPT !.bestbic = IF better THEN b ELSE @,
                                   !.i = @ + 1,
                                   !.cycles = Append(@, cyc),
                                   !.nG = 0,
                                   !.prior = Prior(NoGMM)]
             /\ est' = NoEst
             /\ pc' = "iae_loop"
             /\ UNCHANGED <<self, fresh, data, x, op, calls, pre, out, prev,
                            bfg, bgmm>>
  /\ UNCHANGED <<seeding, views>>

\* initialize_and_estimate: return bestgmm
IaeReturn ==
  /\ pc = "iae_ret"
  /\ IF op = "initialize_and_estimate"
     THEN /\ Finish("ok", NaN, self, prev, fresh)
          /\ UNCHANGED <<bestgmm, bgmm>>
     ELSE /\ pc' = "bfg_cmp"
          /\ UNCHANGED <<self, fresh, data, x, op, calls, pre, out, est,
                         prev, iae, bestgmm, bfg, bgmm>>
  /\ UNCHANGED <<seeding, alias, views>>

\* best_fitting_GMM(x, krange, prec_type, niter) is called (delta and ninit
\* are left at their defaults, 1.e-4, which is 0 at the resolution of the
\* numbers, and 1); the reshape of x, dim = x.shape[1] and
\* bestbic = -np.infty.  The function is called where no object exists;
\* while it runs, self is the lgmm it builds.
CallBfg ==
  /\ pc = "idle"
  /\ ~HasObject
  /\ calls = 0
  /\ \E flat \in {FALSE} \cup {data.shape[2] = 1},
        krange \in KRanges, prec_type \in PrecTypes \ {"tied"},
        niter \in 0..MaxIter :
       LET xa == IF flat THEN Flat(data) ELSE data
       IN /\ x' = Reshape(xa)
          /\ bfg' = [BfgStart(krange, prec_type, niter, 0, 1)
                       EXCEPT !.dim = Reshape(xa).shape[2]]
  /\ pc' = "bfg_loop"
  /\ op' = "best_fitting_GMM"
  /\ calls' = calls + 1
  /\ pre' = self
  /\ out' = NoOut
  /\ UNCHANGED <<self, fresh, data, est, prev, iae, bestgmm, bgmm>>
  /\ UNCHANGED <<seeding, alias, views>>

\* best_fitting_GMM, one k of krange up to the call of
\* initialize_and_estimate: lgmm = GMM(k, dim, prec_type)
BfgNext ==
  /\ pc = "bfg_loop"
  /\ bfg.pos < Len(bfg.krange)
  /\ self' = GMM(bfg.krange[bfg.pos + 1], bfg.dim, bfg.prec_type,
                 None, None, None)
  /\ fresh' = TRUE
  /\ prev' = NoPrev
  /\ iae' = IaeStart(bfg.niter, bfg.delta, bfg.ninit)
  /\ pc' = "iae_enter"
  /\ UNCHANGED <<data, x, op, calls, pre, out, est, bestgmm, bfg, bgmm>>
  /\ alias' = {}
  /\ UNCHANGED <<seeding, views>>

\* best_fitting_GMM: krange is used up
BfgExhausted ==
  /\ pc = "bfg_loop"
  /\ bfg.pos >= Len(bfg.krange)
  /\ pc' = "bfg_ret"
  /\ UNCHANGED <<self, fresh, data, x, op, calls, pre, out, est, prev, iae,
                 bestgmm, bfg, bgmm>>
  /\ UNCHANGED <<seeding, alias, views>>

\* a variant of the test of best_fitting_GMM: bic >= bestbic
BfgBetterOrEqual(b, bestbic) == AtMost(bestbic, b)

\* bic > bestbic, the test of best_fitting_GMM
BfgBetter(b, bestbic) == Less(bestbic, b)

\* best_fitting_GMM, the rest of the pass for one k: gmmk is what
\* initialize_and_estimate returned, bic = gmmk.evidence(x), and gmmk
\* becomes bgmm if bic > bestbic.  cands records the models gmmk in the
\* order of krange, bestpos the position of the one bound to bgmm.
BfgCompare ==
  /\ pc = "bfg_cmp"
  /\ LET gmmk == bestgmm
         c == check_x(gmmk, x)
         b == evidence(gmmk, c.x.a)
         better == BfgBetter(b, bfg.bestbic)
     IN IF c.err # "ok"
        THEN /\ Finish(c.err, NaN, self, prev, fresh)
             /\ UNCHANGED <<bestgmm, bgmm>>
        ELSE /\ bgmm' = IF better THEN gmmk ELSE bgmm
             /\ bfg' = [bfg EXCEPT
                          !.bestbic = IF better THEN b ELSE @,
                          !.bound = @ \/ better,
                          !.bestpos = IF better THEN bfg.pos + 1 ELSE @,
                          !.pos = @ + 1,
                          !.cands = Append(@, gmmk)]
             /\ iae' = NoIae
             /\ pc' = "bfg_loop"
             /\ UNCHANGED <<self, fresh, data, x, op, calls, pre, out, est,
                            prev, bestgmm>>
  /\ UNCHANGED <<seeding, alias, views>>

\* best_fitting_GMM: return bgmm; bgmm is not bound when no k passed the
\* test
BfgReturn ==
  /\ pc = "bfg_ret"
  /\ IF bfg.bound
     THEN Finish("ok", NaN, self, prev, fresh)
     ELSE Finish("UnboundLocalError", NaN, self, prev, fresh)
  /\ UNCHANGED <<bestgmm, bgmm>>
  /\ UNCHANGED <<seeding, alias, views>>

Next ==
  \/ Return
  \/ Plugin
  \/ Check
  \/ Initialize
  \/ Update
  \/ MixtureLikelihood
  \/ AverageLogLike
  \/ Evidence
  \/ CallEstimate
  \/ EstEnter
  \/ EstIterate
  \/ EstExhausted
  \/ EstMstep
  \/ EstReturn
  \/ CallIae
  \/ IaeEnter
  \/ IaeTrial
  \/ IaeInitialize
  \/ IaeExhausted
  \/ IaeCompare
  \/ IaeReturn
  \/ CallBfg
  \/ BfgNext
  \/ BfgExhausted
  \/ BfgCompare
  \/ BfgReturn

Spec == Init /\ [][Next]_vars

\* ------------------------------------------------------------------------
\* A call of HasDynamicViews._get_dynamic_elements('view')
\* ------------------------------------------------------------------------
\* an object holds up to MaxElems view sub-elements and the view is
\* requested; no GMM session runs
InitViews ==
  /\ views \in {ViewsStart(all) : all \in ElementLists(MaxElems)}
  /\ self = NoGMM
  /\ fresh = FALSE
  /\ data = NoData
  /\ x = NoData
  /\ pc = "idle"
  /\ op = "none"
  /\ calls = 0
  /\ pre = NoGMM
  /\ out = NoOut
  /\ est = NoEst
  /\ prev = NoPrev
  /\ iae = NoIae
  /\ bestgmm = NoGMM
  /\ bfg = NoBfg
  /\ bgmm = NoGMM
  /\ seeding = NoSeeding
  /\ alias = {}

\* the elements whose order metadata is set are collected; filtered = {}
ViewCollect ==
  /\ views.pc = "call"
  /\ views' = [views EXCEPT !.elements = WithOrder(views.all, "view"),
                            !.filtered = <<>>,
                            !.pos = 0,
                            !.pc = "filter"]
  /\ UNCHANGED gmmvars

\* one pass of the loop "for e in elements"
ViewFilter ==
  /\ views.pc = "filter"
  /\ views.pos < Len(views.elements)
  /\ views' = [views EXCEPT
                 !.filtered = FilterOne(@, views.elements[views.pos + 1],
                                        "view"),
                 !.pos = @ + 1]
  /\ UNCHANGED gmmvars

\* the loop is over: the keys are sorted and elements is rebuilt
ViewSort ==
  /\ views.pc = "filter"
  /\ views.pos >= Len(views.elements)
  /\ views' = [views EXCEPT !.elements = InOrder(views.filtered),
                            !.sorted = InOrder(views.filtered),
                            !.pos = 0,
                            !.pc = "replace"]
  /\ UNCHANGED gmmvars

\* one pass of the loop "for i in range(len(elements))": a dynamic
\* sub-element is popped and its composition is inserted in its place
ViewReplace ==
  /\ views.pc = "replace"
  /\ views.pos < Len(views.elements)
  /\ LET i == views.pos
         e == views.elements[i + 1]
     IN views' = [views EXCEPT
                    !.elements =
                      IF e.kind = "dynamic"
                      THEN Insert(Pop(@, i), i,
                                  ComposeSubElement(views.all, e))
                      ELSE @,
                    !.pos = @ + 1]
  /\ UNCHANGED gmmvars

\* return elements
ViewReturn ==
  /\ views.pc = "replace"
  /\ views.pos >= Len(views.elements)
  /\ views' = [views EXCEPT !.pc = "done"]
  /\ UNCHANGED gmmvars

NextViews ==
  \/ ViewCollect
  \/ ViewFilter
  \/ ViewSort
  \/ ViewReplace
  \/ ViewReturn

SpecViews == InitViews /\ [][NextViews]_vars

\* ------------------------------------------------------------------------
\* Properties
\* ------------------------------------------------------------------------
\* two models hold the same means, precisions and weights
SameParams(g, h) ==
  /\ g.means.shape = h.means.shape
  /\ g.precisions.shape = h.precisions.shape
  /\ g.weights.shape = h.weights.shape
  /\ g.means.a = h.means.a
  /\ g.precisions.a = h.precisions.a
  /\ g.weights.a = h.weights.a

\* C1: when best_fitting_GMM has gone through a non-empty krange, the model
\* it returns is the candidate of one k of krange, its evidence on x is at
\* least the evidence of every candidate, and every candidate that comes
\* before it in krange has a strictly smaller evidence (ties keep the
\* first).
BestFittingIsMax ==
  (pc = "bfg_ret" /\ Len(bfg.krange) > 0) =>
    /\ bfg.bound
    /\ Len(bfg.cands) = Len(bfg.krange)
    /\ bfg.bestpos \in 1..Len(bfg.krange)
    /\ bgmm.k = bfg.krange[bfg.bestpos]
    /\ SameParams(bgmm, bfg.cands[bfg.bestpos])
    /\ \A j \in 1..Len(bfg.cands) :
         /\ bfg.cands[j].k = bfg.krange[j]
         /\ AtMost(evidence(bfg.cands[j], x.a), evidence(bgmm, x.a))
         /\ j < bfg.bestpos =>
              Less(evidence(bfg.cands[j], x.a), evidence(bgmm, x.a))

\* C1, its case: two candidates of equal evidence, and the first is returned
BestFittingTie ==
  /\ pc = "bfg_ret"
  /\ Len(bfg.cands) = 2
  /\ bfg.krange = <<2, 2>>
  /\ evidence(bfg.cands[1], x.a) = evidence(bfg.cands[2], x.a)
  /\ bfg.bestpos = 1

\* C2: when initialize_and_estimate has run its ninit >= 1 cycles, the
\* evidence on x of the model it returns is at least the evidence of the
\* parameters that each cycle ended with.
IaeReturnsBestCycle ==
  (pc = "iae_ret" /\ iae.ninit >= 1) =>
    \A j \in 1..Len(iae.cycles) :
      AtMost(evidence(iae.cycles[j].model, x.a), evidence(bestgmm, x.a))

\* C3: a call of estimate with niter >= 1 that returns, returns the evidence
\* on x of the parameters the model then holds, whichever way the loop
\* ended.
EstimateReturnsEvidence ==
  (pc = "done" /\ op = "estimate" /\ out.status = "ok") =>
    out.ret = evidence(self, check_x(self, x).x.a)

\* C4: the evidence on x of the model that initialize_and_estimate holds as
\* its best is, after each further cycle, at least what it was after the
\* cycle before.
IaeMonotoneInNinit ==
  \A j \in 2..Len(iae.cycles) :
    AtMost(evidence(iae.cycles[j - 1].best, x.a),
           evidence(iae.cycles[j].best, x.a))

\* the weights w are non-negative and sum to 1, up to one unit of the
\* resolution per weight
Normalised(w) ==
  /\ \A c \in 1..Len(w.a) : w.a[c] >= 0
  /\ Abs(SumSeq(w.a) - ONE) <= Len(w.a)

\* C5: where an M step has just set the weights (initialize and update
\* that returned, the loop of estimate after its M step, a trial of
\* initialize_and_estimate after its initialize, and bestgmm, whose weights
\* were set by initialize or plugged in from such a trial), every weight is
\* non-negative and the weights sum to 1.
WeightsNormalisedAfterMstep ==
  /\ (pc = "done" /\ op \in {"initialize", "update"} /\ out.status = "ok") =>
       Normalised(self.weights)
  /\ (pc = "est_loop" /\ est.nM >= 1) => Normalised(self.weights)
  /\ (pc = "est_enter" /\ op # "estimate") => Normalised(self.weights)
  /\ pc \in {"iae_loop", "iae_cmp", "iae_ret"} => Normalised(bestgmm.weights)

\* C5, its case: update has returned on a model of two components, having
\* been handed responsibilities that differ from sample to sample
UpdateHasRun ==
  /\ pc = "done"
  /\ op = "update"
  /\ out.status = "ok"
  /\ self.k = 2
  /\ self.weights.a[1] # self.weights.a[2]
  /\ Normalised(self.weights)

\* C6: a model of kind 'full' or 'diag' passes check() in every state.
CheckAlwaysSucceeds ==
  (HasObject /\ self.prec_type \in {"full", "diag"}) => check(self) = "ok"

\* C7: a model of kind 'full' or 'diag' built with no means, precisions or
\* weights given passes check(), as long as no operation has assigned a
\* field.
DefaultModelPassesCheck ==
  (fresh /\ self.prec_type \in {"full", "diag"}) => check(self) = "ok"

\* C7, its case: the default model of two components of dimension 2 and of
\* kind 'full' is there and passes check()
DefaultFullModel ==
  /\ fresh
  /\ self.k = 2
  /\ self.dim = 2
  /\ self.prec_type = "full"
  /\ SameParams(self, GMM(2, 2, "full", Zeros2(2, 2), EyeStack(2, 2),
                          Uniform(2)))
  /\ check(self) = "ok"

\* C8: when the last estimate call on the model ended by the delta test and
\* the model has not changed since, the first average log-likelihood of a
\* call of estimate on the same data is the last one of that call.
EstimateIdempotentOnceConverged ==
  (pc \in {"est_m", "est_ret"} /\ est.nE = 1 /\ prev.valid
     /\ prev.x = est.x) =>
    est.all = prev.all

\* C8, its case: a second call of estimate on a converged model and the
\* same data has done its first E step
SecondEstimateAfterConvergence ==
  /\ op = "estimate"
  /\ pc = "est_m"
  /\ est.nE = 1
  /\ prev.valid
  /\ prev.x = est.x
  /\ est.all = prev.all
  /\ est.all.t = "num"

\* C9: estimate does at most niter E steps and at most niter M steps,
\* initialize_and_estimate at most ninit cycles, and a call of estimate on
\* an initialized model and a dataset that check_x accepts ends by
\* returning, for every niter >= 0.
EstimateReturnsWithinBudget ==
  /\ est.nE <= est.niter
  /\ est.nM <= est.niter
  /\ Len(iae.cycles) <= iae.ninit
  /\ (pc = "done" /\ op = "estimate" /\ pre.prior_set
        /\ check_x(pre, x).err = "ok") =>
       out.status = "ok"

\* the operations that run check_x on their dataset
ChecksX == {"estimate", "mixture_likelihood", "average_log_like", "evidence"}

\* C10: a call of estimate, mixture_likelihood, average_log_like or
\* evidence on a dataset whose row length is not the model's dim ends with
\* the error of check_x and leaves means, precisions and weights as they
\* were.
MismatchRaises ==
  (pc = "done" /\ op \in ChecksX /\ RowLength(x) # pre.dim) =>
    /\ out.status = "ValueError"
    /\ SameParams(self, pre)

\* C11: a precision kind other than 'full' and 'diag' is fatal: no model of
\* such a kind is ever built (the constructor raises), and check() raises on
\* every model of such a kind.
UnknownKindIsFatal ==
  /\ HasObject => self.prec_type \in {"full", "diag"}
  /\ (pc = "done" /\ op = "check" /\ pre.prec_type \notin {"full", "diag"}) =>
       out.status # "ok"


\* the contributed elements whose '_view_order' is the order value o
AtOrder(all, o) ==
  {i \in 1..Len(all) : all[i].order["view"] = Meta(o)}

\* the first element met among those of the highest priority at order
\* value o, an unset priority counting as 0
FirstOfHighest(all, o) ==
  CHOOSE i \in AtOrder(all, o) :
    \A j \in AtOrder(all, o) :
      \/ PriorityOrZero(all[j].priority["view"])
           < PriorityOrZero(all[i].priority["view"])
      \/ /\ PriorityOrZero(all[j].priority["view"])
              = PriorityOrZero(all[i].priority["view"])
         /\ i <= j

\* C12: of the contributed elements that carry the same order value, the
\* list that _get_dynamic_elements has sorted holds exactly one: the first
\* one met among those of the highest priority, an unset priority counting
\* as 0.
KeepsFirstOfHighestPriority ==
  views.pc \in {"replace", "done"} =>
    \A o \in 1..2 :
      AtOrder(views.all, o) # {} =>
        /\ Cardinality({i \in 1..Len(views.sorted) :
                          views.sorted[i].order["view"] = Meta(o)}) = 1
        /\ \E i \in 1..Len(views.sorted) :
             views.sorted[i].id = FirstOfHighest(views.all, o)

\* C13: the list that _get_dynamic_elements returns holds, per order value
\* that is set on some contributed element, one element that carries it or
\* the composition of one, and nothing else; the order values ascend
\* strictly along the list; and the replacement of the dynamic sub-elements
\* left the length of the sorted list and the place of every element as
\* they were.
ReturnsSortedByOrder ==
  views.pc = "done" =>
    /\ Len(views.elements) = Len(views.sorted)
    /\ Len(views.sorted)
         = Cardinality({o \in 1..2 : AtOrder(views.all, o) # {}})
    /\ \A i \in 1..Len(views.sorted) :
         /\ views.sorted[i] = views.all[views.sorted[i].id]
         /\ views.sorted[i].order["view"] # Unset
         /\ IF views.sorted[i].kind = "dynamic"
            THEN /\ views.elements[i].kind = "composed"
                 /\ views.elements[i].id = views.sorted[i].id
            ELSE views.elements[i] = views.sorted[i]
    /\ \A i \in 1..(Len(views.sorted) - 1) :
         views.sorted[i].order["view"][1] < views.sorted[i + 1].order["view"][1]

\* C13, its case: a plain and a dynamic sub-element were contributed in
\* descending order of their order values, and the list is returned with
\* the composition of the dynamic one first
ReturnsComposedInPlace ==
  /\ views.pc = "done"
  /\ Len(views.elements) = 2
  /\ views.all[1].order["view"] = Meta(2)
  /\ views.all[2].order["view"] = Meta(1)
  /\ views.all[2].kind = "dynamic"
  /\ views.elements[1].kind = "composed"
  /\ views.elements[1].parts # <<>>
  /\ views.elements[2] = views.all[1]


\* C14: a pass of the loop of estimate runs the E step and computes all
\* first; when all < allOld + delta the loop ends with no M step in that
\* pass, and the parameters are those the last E step was evaluated on;
\* otherwise allOld becomes all and one M step runs.  On the exit by the
\* test there is one M step less than E steps; when range(niter) is used up
\* there are niter of each.
EstepTestThenMstep ==
  /\ pc = "est_loop" => (est.nE = est.nM /\ est.nM = est.i)
  /\ pc = "est_m" =>
       /\ est.nE = est.nM + 1
       /\ ~est.conv
       /\ est.allOld = est.all
       /\ est.l = Estep(self, est.x.a)
  /\ (pc = "est_ret" /\ est.conv) =>
       /\ est.nM = est.nE - 1
       /\ Less(est.all, Plus(est.allOld, est.delta))
       /\ est.l = Estep(self, est.x.a)
  /\ (pc = "est_ret" /\ ~est.conv) =>
       (est.nE = est.niter /\ est.nM = est.niter)

\* C14, its case: estimate leaves its loop by the test in its second pass,
\* after two E steps and one M step
ConvergedExitAfterOneMstep ==
  /\ pc = "est_ret"
  /\ est.conv
  /\ est.nE = 2
  /\ est.nM = 1
  /\ est.niter = 2


\* a trial of initialize_and_estimate is running on self and its
\* guess_regularizing has returned
InTrial ==
  /\ op \in {"initialize_and_estimate", "best_fitting_GMM"}
  /\ pc \in {"iae_init", "est_enter", "est_loop", "est_m", "est_ret",
             "iae_cmp"}

FreeParameters(g) ==
  IF g.prec_type = "full"
  THEN g.k * (1 + g.dim + (g.dim * (g.dim + 1)) \div 2) - 1
  ELSE g.k * (1 + 2 * g.dim) - 1

\* C16: what evidence() returns on a dataset of n >= 1 rows is the sum of
\* the logs of the mixture likelihoods of the rows minus log(n) times the
\* number of free parameters, k*(1 + dim + dim*(dim+1)/2) - 1 for the kind
\* 'full' and k*(1 + 2*dim) - 1 for the kind 'diag'.
EvidencePenalisesFreeParameters ==
  (pc = "done" /\ op = "evidence" /\ out.status = "ok"
     /\ pre.prec_type \in {"full", "diag"} /\ x.shape[1] > 0) =>
    LET rows == check_x(pre, x).x.a
        like == likelihood(pre, rows)
        bicc == SumSeq([i \in 1..Len(rows) |->
                          Log(Max(SumSeq(like[i]), tiny))])
    IN out.ret = Num(bicc - Log(Len(rows) * ONE) * FreeParameters(pre))


\* C17: initialize builds a membership matrix of n rows and k columns, each
\* row with a 1 in the column of the label of its sample and 0 elsewhere,
\* and runs one M step on it after guess_regularizing; with k = 1 every
\* label is 0 and fc.kmeans is not called; with k > 1 it is called once per
\* initialize, and no operation that runs no initialize calls it.
InitializeSeedsOneHot ==
  /\ (pc = "done" /\ op = "initialize" /\ out.status = "ok") =>
       /\ Len(seeding.l) = Len(x.a)
       /\ \A i \in 1..Len(seeding.l) :
            /\ Len(seeding.l[i]) = pre.k
            /\ seeding.z[i] \in 0..(pre.k - 1)
            /\ \A c \in 1..pre.k :
                 seeding.l[i][c] = IF c = seeding.z[i] + 1 THEN ONE ELSE 0
            /\ pre.k = 1 => seeding.z[i] = 0
       /\ seeding.updates = 1
       /\ seeding.kmeans = (IF pre.k = 1 THEN 0 ELSE 1)
       /\ SameParams(self, Mstep(guess_regularizing(pre, x.a).self, x.a,
                                 seeding.l).self)
  /\ seeding.kmeans <= seeding.updates
  /\ (op # "best_fitting_GMM" /\ HasObject /\ self.k = 1) =>
       seeding.kmeans = 0
  /\ op \notin {"initialize", "initialize_and_estimate", "best_fitting_GMM"}
       => (seeding.kmeans = 0 /\ seeding.updates = 0)
  /\ (op = "initialize_and_estimate" /\ pc = "iae_loop") =>
       seeding.updates = 1 + iae.i

\* C17, its case: initialize has returned on a model of two components,
\* with samples in both of them
InitializedTwoComponents ==
  /\ pc = "done"
  /\ op = "initialize"
  /\ out.status = "ok"
  /\ pre.k = 2
  /\ seeding.kmeans = 1
  /\ \E i, j \in 1..Len(seeding.l) :
       seeding.l[i] = <<ONE, 0>> /\ seeding.l[j] = <<0, ONE>>


\* two numbers agree up to the rounding of the arithmetic (one part in 20)
Close(a, b) == 20 * Abs(a - b) <= Abs(b) + 20

\* component c has soft population 0 in the responsibility matrix l
EmptyComponent(l, c) == \A i \in 1..Len(l) : l[i][c] = 0

Evaluators == {"mixture_likelihood", "average_log_like", "evidence"}

\* array y is one of the arrays that callers pass for dataset d
IsArgument(y, d) ==
  \E n \in 1..Len(ArgData(d)) :
    /\ y.shape = ArgData(d)[n].shape
    /\ y.a = ArgData(d)[n].a

\* C19: no operation changes the dataset passed to it: the dataset of the
\* caller stays as it is in every step, the array bound to a call is one of
\* the caller's arrays when the call starts and is the same array, in shape
\* and in contents, at every later step of the call, the reshape of check_x
\* included.  The M-step of estimate leaves the responsibility matrix l as
\* it was passed, and the evaluators (mixture_likelihood, average_log_like,
\* evidence, the E-step and the test of estimate, the evidence that
\* best_fitting_GMM asks of gmmk) leave means, precisions and weights of the
\* model unchanged.
ArgumentsReadOnly ==
  [][ /\ data' = data
      /\ (pc = "idle" /\ pc' # "idle" /\ x' # NoData) => IsArgument(x', data)
      /\ (pc # "idle" /\ pc' # "idle") => x' = x
      /\ (pc = "est_m" /\ pc' = "est_loop") => est'.l = est.l
      /\ (pc = "idle" /\ op' \in Evaluators) => SameParams(self', self)
      /\ (pc = "est_loop" /\ pc' # "done") => SameParams(self', self)
      /\ (pc = "bfg_cmp") => SameParams(bestgmm', bestgmm) ]_vars

\* estimate was called with an array of rank 1: check_x has reshaped it for
\* the loop, an E-step and an M-step have run, and the caller's array is
\* still of rank 1
FlatArgumentAfterMstep ==
  /\ pc = "est_loop"
  /\ op = "estimate"
  /\ est.nM >= 1
  /\ Len(x.shape) = 1
  /\ Len(est.x.shape) = 2
  /\ est.l # <<>>


\* trial j of cycles is the first of those with the highest score, the
\* score being what estimate returned to initialize_and_estimate
BestTrial(cycles, j) ==
  /\ Less(NegInf, cycles[j].bic)
  /\ \A i \in 1..(j - 1) : Less(cycles[i].bic, cycles[j].bic)
  /\ \A i \in (j + 1)..Len(cycles) : ~Less(cycles[j].bic, cycles[i].bic)

\* C20: the model that initialize_and_estimate returns holds the means,
\* precisions and weights that the best trial had when its estimate
\* returned.  When the score of a trial is compared, bestgmm takes the
\* parameters of self if the score is higher and keeps its own otherwise;
\* no other step, of a later trial (guess_regularizing, update, E-steps,
\* M-steps) or of an operation called on the receiver after the return,
\* changes the parameters of bestgmm, although plugin has bound them to the
\* arrays of the receiver.  When the loop is over the receiver holds the
\* parameters of the last trial and bestgmm those of the first trial with
\* the highest score.
ReturnedModelIsSnapshot ==
  [][ /\ (pc = "iae_cmp" /\ pc' = "iae_loop") =>
           IF Less(iae.bestbic, est.ret)
           THEN SameParams(bestgmm', self)
           ELSE SameParams(bestgmm', bestgmm)
      /\ (/\ pc \notin {"iae_enter", "iae_cmp"}
          /\ ~(pc = "done" /\ ~Kept(op, out.status))) =>
           SameParams(bestgmm', bestgmm)
      /\ (pc = "iae_ret" /\ Len(iae.cycles) > 0) =>
           /\ SameParams(self, iae.cycles[Len(iae.cycles)].model)
           /\ \A j \in 1..Len(iae.cycles) :
                BestTrial(iae.cycles, j) =>
                  SameParams(bestgmm, iae.cycles[j].model) ]_vars

\* two trials have run, the first had the higher score: bestgmm holds what
\* the first trial ended with, and the receiver, on which the second trial
\* ran its initialize and its M-steps, holds something else
FirstTrialKeptThroughSecond ==
  /\ pc = "iae_ret"
  /\ Len(iae.cycles) = 2
  /\ BestTrial(iae.cycles, 1)
  /\ SameParams(bestgmm, iae.cycles[1].model)
  /\ ~SameParams(bestgmm, self)
  /\ alias = {}


====
